---------------------------- MODULE Spec2Model ----------------------------
(***************************************************************************)
(* A model of the payment-schedule accounting of ynab-debt-tracker:        *)
(* src/unnamed/part_000 (the lib/ynab helpers) and src/src/app/page.tsx    *)
(* (the App component: its state, its effect and its handlers).            *)
(*                                                                         *)
(* Time.  An instant is a natural number of ticks; TicksPerDay ticks make  *)
(* one calendar day, so instant t lies on day t \div TicksPerDay at time   *)
(* of day t % TicksPerDay (0 is local midnight exactly).  Day 0 is a       *)
(* Sunday.  A date string 'YYYY-MM-DD' is modelled by its day number.      *)
(* A synchronous block of code runs within one tick: the clock advances    *)
(* between actions, never inside one.                                      *)
(*                                                                         *)
(* Money.  The ledger counts in signed integer milliunits.  A currency     *)
(* amount (a JavaScript number) is modelled as a rational [num, den] with  *)
(* den > 0.                                                                *)
(***************************************************************************)
EXTENDS Integers, Sequences, FiniteSets

VARIABLES
    now,                     \* the wall clock, in ticks
    paymentDays,             \* state: scheduled weekdays (0 = Sunday)
    paymentHistory,          \* state: records [date, amount], newest first
    deadlineConfig,          \* state: Null or Some([enabled, endDate])
    paymentDaysRemaining,    \* state
    totalDaysUntilDeadline,  \* state
    accountBalance,          \* state: the outstanding debt, a currency amount
    presetPaymentAmount,     \* state: the fixed payment, a currency amount
    renderedStatus,          \* the debtStatus memo as last computed
    renderedFinishDate,      \* the estimatedFinishDate memo as last computed
    evaluatedAt,             \* the clock value the last evaluation read, or Never
    accountKey,              \* the 'account' search parameter, or its default
    loading,                 \* state
    error,                   \* state: ErrorNull or a message
    budgetId,                \* state
    accountId,               \* state
    paymentAccounts,         \* state: payment method -> ledger account id
    isPaymentModalOpen,      \* state
    lastToast,               \* the notification shown last
    budgets,                 \* ledger: the budgets getBudgets returns
    ledgerBalance,           \* ledger: the account's signed balance, milliunits
    ledger,                  \* ledger: the account's transactions [date, amount]
    loadPc,                  \* where loadAccountData stands
    calls,                   \* the handleRegisterPayment invocations in flight
    clicks,                  \* how many invocations were started
    lastFetched,             \* Null, or Some(list) of the fetch behind paymentHistory
    fetches,                 \* the ledger fetches loadAccountData has issued
    isBlankPaymentModalOpen, \* state
    blankPaymentReason,      \* state: the text of the reason, a list of characters
    blanks,                  \* how many handleRegisterBlankPayment calls were made
    statusAt,                \* the clock value the debtStatus memo read, or Never
    statusStale,             \* the memo's dependencies changed since it was computed
    paid,                    \* the balance shown at the first handleRegisterPayment
                             \* call, and how many of the calls' writes succeeded
    navigations              \* how often the 'account' parameter was changed

appVars == <<accountKey, loading, error, budgetId, accountId, paymentAccounts,
             isPaymentModalOpen, lastToast, budgets, ledgerBalance, ledger,
             loadPc, calls, clicks, lastFetched, fetches,
             isBlankPaymentModalOpen, blankPaymentReason, blanks, statusAt,
             statusStale, paid, navigations>>

blankVars == <<isBlankPaymentModalOpen, blankPaymentReason, blanks>>

vars == <<now, paymentDays, paymentHistory, deadlineConfig, paymentDaysRemaining,
          totalDaysUntilDeadline, accountBalance, presetPaymentAmount,
          renderedStatus, renderedFinishDate, evaluatedAt, appVars>>

----------------------------------------------------------------------------
(* Bounds of the model.                                                    *)

TicksPerDay == 2

MaxDay == 8

MaxHist == 2

Never == 0 - 1

Null == <<>>

Some(x) == <<x>>

Max(a, b) == IF a >= b THEN a ELSE b

Min(a, b) == IF a <= b THEN a ELSE b

Abs(n) == IF n < 0 THEN -n ELSE n

----------------------------------------------------------------------------
(* dayjs: the operations the program uses.                                 *)

\* dayjs('YYYY-MM-DD'): local midnight of that date
ParseDate(date) == date * TicksPerDay

\* .format('YYYY-MM-DD')
FormatDate(t) == t \div TicksPerDay

\* .day(): 0 = Sunday .. 6 = Saturday
DayOfWeek(t) == (t \div TicksPerDay) % 7

IsBefore(a, b) == a < b

IsAfter(a, b) == a > b

\* a.isSame(b, 'day')
IsSameDay(a, b) == (a \div TicksPerDay) = (b \div TicksPerDay)

\* .add(n, 'day') and .subtract(n, 'day')
AddDays(t, n) == t + n * TicksPerDay

\* a.diff(b, 'day'): whole days between the instants, truncated toward zero
DiffDays(a, b) ==
    IF a >= b THEN (a - b) \div TicksPerDay
              ELSE -((b - a) \div TicksPerDay)

----------------------------------------------------------------------------
(* Currency amounts.                                                       *)

Cur(n, d) == [num |-> n, den |-> d]

Whole(n) == Cur(n, 1)

MilliunitsPerUnit == 1000

milliunitsToCurrency(milliunits) == Cur(milliunits, MilliunitsPerUnit)

CurSub(a, b) == Cur(a.num * b.den - b.num * a.den, a.den * b.den)

CurEq(a, b) == a.num * b.den = b.num * a.den

CurGeqZero(a) == a.num >= 0

CurLeqZero(a) == a.num <= 0

\* Math.ceil(a / b) for b > 0
CeilDiv(a, b) ==
    LET p == a.num * b.den
        q == a.den * b.num
    IN  -((-p) \div q)

----------------------------------------------------------------------------
(* calculatePaymentDaysRemaining and getDaysUntilDeadline.                 *)

\* The condition of the while loop of calculatePaymentDaysRemaining.
LoopRuns(currentDate, deadline) ==
    IsBefore(currentDate, deadline) \/ IsSameDay(currentDate, deadline)

\* The loop visits currentDate = today + k days for k = 0, 1, 2, .. as long
\* as LoopRuns holds.  LoopRuns is false from the first k on for which it is
\* false, and false for every k beyond the number of ticks from today to
\* the deadline: these are the k the loop body runs for.
Iterations(today, deadline) ==
    {k \in 0 .. Max(0, deadline - today) : LoopRuns(AddDays(today, k), deadline)}

\* The loop without its isSame(deadline, 'day') test.
CountPaymentDays_BeforeOnly(today, deadline, days) ==
    Cardinality({k \in 0 .. Max(0, deadline - today) :
                    /\ IsBefore(AddDays(today, k), deadline)
                    /\ DayOfWeek(AddDays(today, k)) \in days})

\* paymentDaysCount when the loop ends
CountPaymentDays(today, deadline, days) ==
    Cardinality({k \in Iterations(today, deadline) :
                    DayOfWeek(AddDays(today, k)) \in days})

\* The filter predicate with "not before" in place of isAfter.
IsPaidDay_NotBefore(payment, today, deadline, days) ==
    LET paymentDate == ParseDate(payment.date)
    IN  /\ ~IsBefore(paymentDate, AddDays(today, -1))
        /\ IsBefore(paymentDate, AddDays(deadline, 1))
        /\ DayOfWeek(paymentDate) \in days
        /\ CurGeqZero(payment.amount)

\* The filter predicate of paidDays.
IsPaidDay(payment, today, deadline, days) ==
    LET paymentDate == ParseDate(payment.date)
    IN  /\ IsAfter(paymentDate, AddDays(today, -1))
        /\ IsBefore(paymentDate, AddDays(deadline, 1))
        /\ DayOfWeek(paymentDate) \in days
        /\ CurGeqZero(payment.amount)

\* paidDays as the number of distinct dates with a counted record.
PaidDays_DistinctDates(history, today, deadline, days) ==
    Cardinality({history[i].date : i \in
                    {j \in DOMAIN history : IsPaidDay(history[j], today, deadline, days)}})

\* paidDays: the length of the filtered history
PaidDays(history, today, deadline, days) ==
    Cardinality({i \in DOMAIN history : IsPaidDay(history[i], today, deadline, days)})

\* The same function with the clamp at zero left out.
calculatePaymentDaysRemaining_NoClamp(today, endDate, days, history) ==
    LET deadline == ParseDate(endDate)
    IN  CountPaymentDays(today, deadline, days)
        - PaidDays(history, today, deadline, days)

\* today is the value dayjs() returns when the function is entered.
calculatePaymentDaysRemaining(today, endDate, days, history) ==
    LET deadline == ParseDate(endDate)
        paymentDaysCount == CountPaymentDays(today, deadline, days)
        paidDays == PaidDays(history, today, deadline, days)
    IN  Max(0, paymentDaysCount - paidDays)

\* The same function with the absolute value in place of the clamp.
getDaysUntilDeadline_Abs(today, endDate) ==
    Abs(DiffDays(ParseDate(endDate), today))

getDaysUntilDeadline(today, endDate) ==
    Max(0, DiffDays(ParseDate(endDate), today))

----------------------------------------------------------------------------
(* The debtStatus memo of App.                                             *)

StatusCompleted == "Pago realizado hoy"

StatusPending == "Pago pendiente hoy"

StatusNotPaymentDay == "No es dia de pago"

StatusUpToDate == "Al dia"

NotRendered == "not rendered"

\* The memo with the date test of madePaymentToday left out.
debtStatus_AnyDate(today, days, history) ==
    LET isPaymentDay == DayOfWeek(today) \in days
        madePaymentToday ==
            \E i \in DOMAIN history : CurGeqZero(history[i].amount)
    IN  IF isPaymentDay /\ madePaymentToday THEN StatusCompleted
        ELSE IF isPaymentDay /\ ~madePaymentToday THEN StatusPending
        ELSE IF ~isPaymentDay THEN StatusNotPaymentDay
        ELSE StatusUpToDate

\* today is the value dayjs() returns when the memo is computed.
debtStatus(today, days, history) ==
    LET dayOfWeek == DayOfWeek(today)
        todayString == FormatDate(today)
        isPaymentDay == dayOfWeek \in days
        madePaymentToday ==
            \E i \in DOMAIN history :
                /\ history[i].date = todayString
                /\ CurGeqZero(history[i].amount)
    IN  IF isPaymentDay /\ madePaymentToday THEN StatusCompleted
        ELSE IF isPaymentDay /\ ~madePaymentToday THEN StatusPending
        ELSE IF ~isPaymentDay THEN StatusNotPaymentDay
        ELSE StatusUpToDate

----------------------------------------------------------------------------
(* ACCOUNT_CONFIG.  Day 0 of the model is Sunday 2030-09-22, so that the   *)
(* end date '2030-09-30' (a Monday) is day 8 and '2031-09-30' (a Tuesday)  *)
(* is day 373.                                                             *)

EndDateTaxi == 8

EndDateL200 == 373

PaymentAccountsTable ==
    [m \in {"Efectivo", "Yappy"} |-> IF m = "Efectivo" THEN "cdc79d30" ELSE "ef27071e"]

ACCOUNT_CONFIG ==
    [taxi |->
        [accountId |-> "65dd34f4",
         paymentQuantity |-> Whole(20),
         paymentDays |-> {1, 2, 3, 4, 5, 6},
         deadlineConfig |-> Some([enabled |-> TRUE, endDate |-> EndDateTaxi]),
         paymentAccounts |-> Some(PaymentAccountsTable)],
     l200 |->
        [accountId |-> "bdd91266",
         paymentQuantity |-> Whole(25),
         paymentDays |-> {1, 2, 3, 4, 5},
         deadlineConfig |-> Some([enabled |-> TRUE, endDate |-> EndDateL200]),
         paymentAccounts |-> Some(PaymentAccountsTable)],
     ian |->
        [accountId |-> "e9833956",
         paymentQuantity |-> Whole(25),
         paymentDays |-> {},
         deadlineConfig |-> Null,
         paymentAccounts |-> Null],
     papa |->
        [accountId |-> "082adef4",
         paymentQuantity |-> Whole(10),
         paymentDays |-> {1, 2, 3, 4, 5, 6},
         deadlineConfig |-> Null,
         paymentAccounts |-> Some(PaymentAccountsTable)]]

\* A lookup that falls back to the first configuration for an unknown key.
getAccountConfig_Default(key) ==
    IF key \in DOMAIN ACCOUNT_CONFIG
    THEN Some(ACCOUNT_CONFIG[key])
    ELSE Some(ACCOUNT_CONFIG.taxi)

\* Null when the key is not configured
getAccountConfig(key) ==
    IF key \in DOMAIN ACCOUNT_CONFIG
    THEN Some(ACCOUNT_CONFIG[key])
    ELSE Null

----------------------------------------------------------------------------
(* The estimatedFinishDate memo of App.  JavaScript's Date counts the day  *)
(* of the month from the first of the month and setDate carries an         *)
(* overflowing day number into the following months.  The model's clock    *)
(* stays within September and October 2030.                                *)

\* the day number of the first day of the month `date` lies in
MonthStart(date) ==
    IF date <= EndDateTaxi THEN EndDateTaxi - 29 ELSE EndDateTaxi + 1

\* Date.prototype.getDate
GetDate(t) == FormatDate(t) - MonthStart(FormatDate(t)) + 1

\* Date.prototype.setDate, as the date it yields
SetDate(t, dayOfMonth) == MonthStart(FormatDate(t)) + dayOfMonth - 1

CadenceDays == 15

NotApplicable == [label |-> "N/A"]

FinishNotRendered == [label |-> "not rendered"]

DateLabel(date) == [label |-> "date", date |-> date]

\* The memo with Math.floor in place of Math.ceil.
estimatedFinishDate_Floor(today, balance, preset) ==
    IF CurLeqZero(preset) THEN NotApplicable
    ELSE LET paymentsLeft == (balance.num * preset.den) \div (balance.den * preset.num)
             daysToFinish == paymentsLeft * CadenceDays
         IN  DateLabel(SetDate(today, GetDate(today) + daysToFinish))

\* The memo without the guard on the payment amount.
estimatedFinishDate_NoGuard(today, balance, preset) ==
    LET paymentsLeft ==
            IF preset.num = 0 THEN 0 ELSE CeilDiv(balance, Cur(Abs(preset.num), preset.den))
        daysToFinish == paymentsLeft * CadenceDays
    IN  DateLabel(SetDate(today, GetDate(today) + daysToFinish))

\* today is the value new Date() returns when the memo is computed.
estimatedFinishDate(today, balance, preset) ==
    IF CurLeqZero(preset) THEN NotApplicable
    ELSE LET paymentsLeft == CeilDiv(balance, preset)
             daysToFinish == paymentsLeft * CadenceDays
         IN  DateLabel(SetDate(today, GetDate(today) + daysToFinish))

----------------------------------------------------------------------------
(* The initial state.                                                      *)

ErrorNull == "null"

NoPaymentAccounts == [m \in {} |-> ""]

\* The state of App as useState creates it, before the effect has run.
InitApp ==
    /\ loading = TRUE
    /\ error = ErrorNull
    /\ budgetId = ""
    /\ accountId = ""
    /\ paymentAccounts = NoPaymentAccounts
    /\ isPaymentModalOpen = FALSE
    /\ lastToast = "none"
    /\ loadPc = "mount"
    /\ calls = <<>>
    /\ clicks = 0
    /\ lastFetched = Null
    /\ fetches = 0
    /\ isBlankPaymentModalOpen = FALSE
    /\ blankPaymentReason = <<>>
    /\ blanks = 0
    /\ paid = [before |-> Null, written |-> 0]
    /\ navigations = 0

\* No page: the functions are applied on their own.
NoApp ==
    /\ InitApp
    /\ statusStale = FALSE
    /\ accountKey = "taxi"
    /\ budgets = <<>>
    /\ ledgerBalance = 0
    /\ ledger = <<>>

InitCore ==
    /\ paymentDaysRemaining = 0
    /\ totalDaysUntilDeadline = 0
    /\ renderedStatus = NotRendered
    /\ renderedFinishDate = FinishNotRendered
    /\ evaluatedAt = Never
    /\ statusAt = Never

----------------------------------------------------------------------------
(* The history reconciler: what loadAccountData and refreshTransactions    *)
(* make of the fetched transactions.  A record keeps the date and the      *)
(* amount; its balance field is a second copy of the amount.               *)

HistoryLimit == 20

\* x goes before the first element that is not newer than it, so that
\* transactions of one date keep their order (Array.prototype.sort is stable)
RECURSIVE InsertNewestFirst(_, _)
InsertNewestFirst(x, sorted) ==
    IF sorted = <<>> THEN <<x>>
    ELSE IF Head(sorted).date <= x.date THEN <<x>> \o sorted
    ELSE <<Head(sorted)>> \o InsertNewestFirst(x, Tail(sorted))

\* .sort((a, b) => new Date(b.date).getTime() - new Date(a.date).getTime())
RECURSIVE SortNewestFirst(_)
SortNewestFirst(transactions) ==
    IF transactions = <<>> THEN <<>>
    ELSE InsertNewestFirst(Head(transactions), SortNewestFirst(Tail(transactions)))

\* .slice(0, n)
Slice(list, n) == SubSeq(list, 1, Min(n, Len(list)))

\* the .map callback
ToPaymentRecord(t) ==
    [date |-> t.date, amount |-> milliunitsToCurrency(Abs(t.amount))]

\* The reconciler without its .slice(0, 20).
ToPaymentHistory_NoSlice(transactions) ==
    LET sorted == SortNewestFirst(transactions)
    IN  [i \in DOMAIN sorted |-> ToPaymentRecord(sorted[i])]

ToPaymentHistory(transactions) ==
    LET kept == Slice(SortNewestFirst(transactions), HistoryLimit)
    IN  [i \in DOMAIN kept |-> ToPaymentRecord(kept[i])]

----------------------------------------------------------------------------
(* The ledger.  createTransaction and createTransferTransaction date the   *)
(* entry with the clock at the call; the ledger shows a transfer in the    *)
(* debt account with the opposite sign.                                    *)

\* Math.round(amount * 1000)
currencyToMilliunits(amount) ==
    (2 * amount.num * MilliunitsPerUnit + amount.den) \div (2 * amount.den)

\* currencyToMilliunits(-Math.abs(amount))
OutflowMilliunits(amount) ==
    currencyToMilliunits(Cur(0 - Abs(amount.num), amount.den))

LedgerEntry(call) ==
    [date |-> call.date,
     amount |-> IF call.transfer THEN 0 - OutflowMilliunits(call.amount)
                                 ELSE OutflowMilliunits(call.amount)]

RemoveAt(list, i) == SubSeq(list, 1, i - 1) \o SubSeq(list, i + 1, Len(list))

----------------------------------------------------------------------------
(* loadAccountData, the effect of App, one action for each stretch of code *)
(* between two awaits.                                                     *)

coreUnchangedByFailure ==
    UNCHANGED <<now, paymentHistory, deadlineConfig, paymentDaysRemaining,
                totalDaysUntilDeadline, renderedStatus, renderedFinishDate,
                evaluatedAt, paymentAccounts, isPaymentModalOpen, budgets,
                ledgerBalance, ledger, calls, clicks, lastFetched, accountKey,
                blankVars, statusAt, paid, navigations>>

\* `Account configuration not found for: ${accountKey}`
ConfigNotFound == "Account configuration not found"

\* The catch block without the finally block.
LoadFails_NoFinally(message) ==
    /\ error' = message
    /\ lastToast' = "Failed to load account data"
    /\ loading' = TRUE
    /\ loadPc' = "failed"

\* the catch and finally blocks
LoadFails(message) ==
    /\ error' = message
    /\ lastToast' = "Failed to load account data"
    /\ loading' = FALSE
    /\ loadPc' = "failed"

\* setLoading .. getBudgets()
LoadStart ==
    /\ loadPc = "mount"
    /\ LET accountConfig == getAccountConfig(accountKey)
       IN  IF accountConfig = Null
           THEN /\ LoadFails(ConfigNotFound)
                /\ fetches' = 0
                /\ UNCHANGED <<presetPaymentAmount, paymentDays, statusStale>>
           ELSE /\ loading' = TRUE
                /\ statusStale' = TRUE
                /\ fetches' = 1
                /\ error' = ErrorNull
                /\ presetPaymentAmount' = accountConfig[1].paymentQuantity
                /\ paymentDays' = accountConfig[1].paymentDays
                /\ loadPc' = "budgets"
                /\ UNCHANGED lastToast
    /\ UNCHANGED <<accountBalance, budgetId, accountId>>
    /\ coreUnchangedByFailure

\* getBudgets() returns .. getAccount()
LoadBudgets ==
    /\ loadPc = "budgets"
    /\ \E ok \in BOOLEAN :
          IF ~ok THEN /\ LoadFails("Failed to load account data")
                      /\ UNCHANGED <<budgetId, accountId, fetches>>
          ELSE IF Len(budgets) = 0
               THEN /\ LoadFails("No budgets found in YNAB account")
                    /\ UNCHANGED <<budgetId, accountId, fetches>>
          ELSE /\ budgetId' = budgets[1]
               /\ accountId' = getAccountConfig(accountKey)[1].accountId
               /\ fetches' = fetches + 1
               /\ loadPc' = "account"
               /\ UNCHANGED <<error, lastToast, loading>>
    /\ UNCHANGED <<accountBalance, presetPaymentAmount, paymentDays, statusStale>>
    /\ coreUnchangedByFailure

\* getAccount() returns .. getTransactions()
LoadAccount ==
    /\ loadPc = "account"
    /\ \E ok \in BOOLEAN :
          IF ~ok THEN /\ LoadFails("Failed to load account data")
                      /\ UNCHANGED <<accountBalance, fetches>>
          ELSE /\ accountBalance' = milliunitsToCurrency(Abs(ledgerBalance))
               /\ fetches' = fetches + 1
               /\ loadPc' = "transactions"
               /\ UNCHANGED <<error, lastToast, loading>>
    /\ UNCHANGED <<budgetId, accountId, presetPaymentAmount, paymentDays,
                   statusStale>>
    /\ coreUnchangedByFailure

\* getTransactions() returns .. the end of the effect
LoadTransactions ==
    /\ loadPc = "transactions"
    /\ \E ok \in BOOLEAN :
          IF ~ok
          THEN /\ LoadFails("Failed to load account data")
               /\ UNCHANGED <<paymentHistory, lastFetched, deadlineConfig,
                              paymentDaysRemaining, totalDaysUntilDeadline,
                              evaluatedAt, paymentAccounts, statusStale>>
          ELSE LET accountConfig == getAccountConfig(accountKey)[1]
                   paymentTransactions == ToPaymentHistory(ledger)
               IN  /\ paymentHistory' = paymentTransactions
                   /\ statusStale' = TRUE
                   /\ lastFetched' = Some(ledger)
                   /\ IF accountConfig.deadlineConfig # Null
                      THEN /\ deadlineConfig' = accountConfig.deadlineConfig
                           /\ paymentDaysRemaining' =
                                 calculatePaymentDaysRemaining(
                                     now, accountConfig.deadlineConfig[1].endDate,
                                     accountConfig.paymentDays, paymentTransactions)
                           /\ totalDaysUntilDeadline' =
                                 getDaysUntilDeadline(
                                     now, accountConfig.deadlineConfig[1].endDate)
                           /\ evaluatedAt' = now
                      ELSE UNCHANGED <<deadlineConfig, paymentDaysRemaining,
                                       totalDaysUntilDeadline, evaluatedAt>>
                   /\ IF accountConfig.paymentAccounts # Null
                      THEN paymentAccounts' = accountConfig.paymentAccounts[1]
                      ELSE UNCHANGED paymentAccounts
                   /\ loading' = FALSE
                   /\ loadPc' = "done"
                   /\ UNCHANGED <<error, lastToast>>
    /\ UNCHANGED <<now, accountBalance, presetPaymentAmount, paymentDays, budgetId,
                   accountId, renderedStatus, renderedFinishDate, isPaymentModalOpen,
                   budgets, ledgerBalance, ledger, calls, clicks, accountKey,
                   fetches, blankVars, statusAt, paid, navigations>>

----------------------------------------------------------------------------
(* The modals and the handlers handleRegisterPayment and                   *)
(* handleRegisterBlankPayment.  The buttons are rendered only when loading *)
(* is false and error is null.  An invocation works on the state of the    *)
(* render it was started from, which the call record keeps.                *)

MaxClicks == 2

MaxBlanks == 1

\* how many invocations await the ledger at once
MaxInFlight == 2

\* the page is past its early returns and rendered from the current state
PageShown == ~loading /\ error = ErrorNull /\ ~statusStale

\* String.prototype.trim, on a list of characters
RECURSIVE TrimStart(_)
TrimStart(text) ==
    IF text # <<>> /\ Head(text) = " " THEN TrimStart(Tail(text)) ELSE text

RECURSIVE TrimEnd(_)
TrimEnd(text) ==
    IF text # <<>> /\ text[Len(text)] = " "
    THEN TrimEnd(SubSeq(text, 1, Len(text) - 1))
    ELSE text

\* A trim that leaves the text as it is.
Trim_Identity(text) == text

Trim(text) == TrimEnd(TrimStart(text))

\* the texts typed into the reason field
ReasonSamples == {<<>>, <<" ", " ">>, <<" ", "n", "o", " ">>}

\* The state the handlers leave alone.
handlersLeaveAlone ==
    UNCHANGED <<now, paymentDays, deadlineConfig, totalDaysUntilDeadline,
                presetPaymentAmount, renderedStatus, renderedFinishDate,
                accountKey, loading, error, budgetId, accountId, paymentAccounts,
                budgets, loadPc, fetches, statusAt, navigations>>

\* The state the modal buttons leave alone.
buttonsLeaveAlone ==
    /\ handlersLeaveAlone
    /\ UNCHANGED <<paymentHistory, paymentDaysRemaining, accountBalance,
                   evaluatedAt, lastToast, ledgerBalance, ledger, calls, clicks,
                   lastFetched, blanks, statusStale, paid>>

\* An open Modal covers the page and its buttons (fixed inset-0).
PageButtonsReachable == PageShown /\ ~isPaymentModalOpen /\ ~isBlankPaymentModalOpen

\* the "Registrar Pago" button
OpenPaymentModal ==
    /\ PageButtonsReachable
    /\ clicks < MaxClicks
    /\ isPaymentModalOpen' = TRUE
    /\ UNCHANGED <<isBlankPaymentModalOpen, blankPaymentReason>>
    /\ buttonsLeaveAlone

\* onClose of the payment modal
ClosePaymentModal ==
    /\ PageShown
    /\ isPaymentModalOpen
    /\ isPaymentModalOpen' = FALSE
    /\ UNCHANGED <<isBlankPaymentModalOpen, blankPaymentReason>>
    /\ buttonsLeaveAlone

\* the "Pago en Blanco" button
OpenBlankPaymentModal ==
    /\ PageButtonsReachable
    /\ blanks < MaxBlanks
    /\ isBlankPaymentModalOpen' = TRUE
    /\ UNCHANGED <<isPaymentModalOpen, blankPaymentReason>>
    /\ buttonsLeaveAlone

\* the "Cancelar" button and onClose of the blank payment modal
CloseBlankPaymentModal ==
    /\ PageShown
    /\ isBlankPaymentModalOpen
    /\ isBlankPaymentModalOpen' = FALSE
    /\ blankPaymentReason' = <<>>
    /\ UNCHANGED isPaymentModalOpen
    /\ buttonsLeaveAlone

\* onChange of the reason field
SetBlankPaymentReason ==
    /\ PageShown
    /\ isBlankPaymentModalOpen
    /\ blanks < MaxBlanks
    /\ \E text \in ReasonSamples :
          /\ text # blankPaymentReason
          /\ blankPaymentReason' = text
    /\ UNCHANGED <<isPaymentModalOpen, isBlankPaymentModalOpen>>
    /\ buttonsLeaveAlone

\* what an invocation keeps of the render it was started from
CallRecord(kind, transfer, amount) ==
    [kind |-> kind,
     pc |-> "write",
     transfer |-> transfer,
     date |-> FormatDate(now),
     amount |-> amount,
     balance |-> accountBalance,
     preset |-> presetPaymentAmount,
     budgetId |-> budgetId,
     accountId |-> accountId,
     deadlineConfig |-> deadlineConfig,
     paymentDays |-> paymentDays]

\* handleRegisterPayment(method) up to its await of the ledger write
RegisterPaymentStart ==
    /\ PageShown
    /\ isPaymentModalOpen
    /\ clicks < MaxClicks
    /\ Len(calls) < MaxInFlight
    /\ \E method \in {"Yappy", "Efectivo"} :
          calls' = Append(calls, CallRecord("payment", method \in DOMAIN paymentAccounts,
                                            presetPaymentAmount))
    /\ clicks' = clicks + 1
    /\ paid' = IF clicks = 0 THEN [paid EXCEPT !.before = Some(accountBalance)] ELSE paid
    /\ UNCHANGED <<paymentHistory, paymentDaysRemaining, accountBalance, evaluatedAt,
                   isPaymentModalOpen, lastToast, ledgerBalance, ledger, lastFetched,
                   blankVars, statusStale>>
    /\ handlersLeaveAlone

\* handleRegisterBlankPayment up to its return or its await of the ledger
\* write.  The handler is applied to every text of the reason field: the
\* disabled attribute of its button repeats the test of its first line.
RegisterBlankPaymentStart ==
    /\ PageShown
    /\ isBlankPaymentModalOpen
    /\ blanks < MaxBlanks
    /\ Len(calls) < MaxInFlight
    /\ blanks' = blanks + 1
    /\ IF Trim(blankPaymentReason) = <<>>
       THEN /\ lastToast' = "Debes proporcionar una razon"
            /\ UNCHANGED calls
       ELSE /\ calls' = Append(calls, CallRecord("blank", FALSE, Whole(0)))
            /\ UNCHANGED lastToast
    /\ UNCHANGED <<paymentHistory, paymentDaysRemaining, accountBalance, evaluatedAt,
                   isPaymentModalOpen, isBlankPaymentModalOpen, blankPaymentReason,
                   ledgerBalance, ledger, lastFetched, clicks, statusStale, paid>>
    /\ handlersLeaveAlone

\* after the write: refreshTransactions up to its await of getTransactions,
\* which it issues only with a budget id and an account id
AfterWrite(i) ==
    IF calls[i].budgetId # "" /\ calls[i].accountId # ""
    THEN [calls EXCEPT ![i].pc = "refresh"]
    ELSE RemoveAt(calls, i)

\* the ledger takes the entry into the account
WriteSucceeds(i) ==
    /\ ledger' = Append(ledger, LedgerEntry(calls[i]))
    /\ ledgerBalance' = ledgerBalance + LedgerEntry(calls[i]).amount
    /\ calls' = AfterWrite(i)

\* A catch block that goes on to refresh the transactions.
RegisterPaymentFails_Refreshes(i) ==
    /\ lastToast' = "Error al registrar el pago"
    /\ calls' = [calls EXCEPT ![i].pc = "refresh"]
    /\ UNCHANGED <<ledger, ledgerBalance, accountBalance, isPaymentModalOpen, paid>>

\* the catch block of handleRegisterPayment
RegisterPaymentFails(i) ==
    /\ lastToast' = "Error al registrar el pago"
    /\ calls' = RemoveAt(calls, i)
    /\ UNCHANGED <<ledger, ledgerBalance, accountBalance, isPaymentModalOpen, paid>>

\* the ledger write of handleRegisterPayment returns .. the await of
\* getTransactions in refreshTransactions, or the catch block
RegisterPaymentWritten ==
    \E i \in DOMAIN calls : \E ok \in BOOLEAN :
        /\ calls[i].kind = "payment"
        /\ calls[i].pc = "write"
        /\ IF ok
           THEN /\ WriteSucceeds(i)
                /\ accountBalance' = CurSub(calls[i].balance, calls[i].preset)
                /\ isPaymentModalOpen' = FALSE
                /\ lastToast' = "Pago registrado"
                /\ paid' = [paid EXCEPT !.written = @ + 1]
           ELSE RegisterPaymentFails(i)
        /\ UNCHANGED <<paymentHistory, paymentDaysRemaining, evaluatedAt, clicks,
                       lastFetched, blankVars, statusStale>>
        /\ handlersLeaveAlone

\* the catch block of handleRegisterBlankPayment
RegisterBlankPaymentFails(i) ==
    /\ lastToast' = "Error al registrar el pago en blanco"
    /\ calls' = RemoveAt(calls, i)
    /\ UNCHANGED <<ledger, ledgerBalance, isBlankPaymentModalOpen, blankPaymentReason>>

\* the ledger write of handleRegisterBlankPayment returns .. the await of
\* getTransactions in refreshTransactions, or the catch block
RegisterBlankPaymentWritten ==
    \E i \in DOMAIN calls : \E ok \in BOOLEAN :
        /\ calls[i].kind = "blank"
        /\ calls[i].pc = "write"
        /\ IF ok
           THEN /\ WriteSucceeds(i)
                /\ isBlankPaymentModalOpen' = FALSE
                /\ blankPaymentReason' = <<>>
                /\ lastToast' = "Pago en blanco registrado"
           ELSE RegisterBlankPaymentFails(i)
        /\ UNCHANGED <<paymentHistory, paymentDaysRemaining, accountBalance,
                       evaluatedAt, clicks, lastFetched, isPaymentModalOpen, blanks,
                       statusStale, paid>>
        /\ handlersLeaveAlone

\* getTransactions returns in refreshTransactions .. the end of the handler
\* that awaits it
RegisterPaymentRefreshed ==
    \E i \in DOMAIN calls : \E ok \in BOOLEAN :
        /\ calls[i].pc = "refresh"
        /\ calls' = RemoveAt(calls, i)
        /\ IF ok
           THEN LET paymentTransactions == ToPaymentHistory(ledger)
                    config == calls[i].deadlineConfig
                IN  /\ paymentHistory' = paymentTransactions
                    /\ statusStale' = TRUE
                    /\ lastFetched' = Some(ledger)
                    /\ IF config # Null /\ config[1].enabled
                       THEN /\ paymentDaysRemaining' =
                                  calculatePaymentDaysRemaining(
                                      now, config[1].endDate,
                                      calls[i].paymentDays, paymentTransactions)
                            /\ evaluatedAt' = now
                       ELSE UNCHANGED <<paymentDaysRemaining, evaluatedAt>>
           ELSE UNCHANGED <<paymentHistory, lastFetched, paymentDaysRemaining,
                            evaluatedAt, statusStale>>
        /\ UNCHANGED <<accountBalance, isPaymentModalOpen, lastToast, ledgerBalance,
                       ledger, clicks, blankVars, paid>>
        /\ handlersLeaveAlone

\* The render that follows a change of paymentHistory or paymentDays
\* computes the debtStatus memo anew, from the clock as it then reads.
RenderStatus ==
    /\ statusStale
    /\ statusStale' = FALSE
    /\ statusAt' = now
    /\ renderedStatus' = debtStatus(now, paymentDays, paymentHistory)
    /\ UNCHANGED <<now, paymentDays, paymentHistory, deadlineConfig,
                   paymentDaysRemaining, totalDaysUntilDeadline, accountBalance,
                   presetPaymentAmount, renderedFinishDate, evaluatedAt, accountKey,
                   loading, error, budgetId, accountId, paymentAccounts,
                   isPaymentModalOpen, lastToast, budgets, ledgerBalance, ledger,
                   loadPc, calls, clicks, lastFetched, fetches, blankVars, paid,
                   navigations>>

----------------------------------------------------------------------------
(* SpecCalc: the deadline counter and the status classifier applied to     *)
(* inputs drawn from bounded sets.                                         *)

WeekdaySets == {{}, {1, 2, 3, 4, 5}, {1, 2, 3, 4, 5, 6}}

\* Monday, Saturday and Sunday
TodayDays == {1, 6, 7}

Instants(days) == {d * TicksPerDay + tod : d \in days, tod \in 0 .. TicksPerDay - 1}

AmountSamples == {Cur(0 - 1000, 1000), Cur(0, 1000), Cur(20000, 1000)}

RecordSamples == [date : 0 .. MaxDay, amount : AmountSamples]

IsNewestFirst(history) ==
    \A i \in DOMAIN history : \A j \in DOMAIN history :
        i < j => history[i].date >= history[j].date

HistorySamples ==
    {h \in UNION {[1 .. n -> RecordSamples] : n \in 0 .. MaxHist} : IsNewestFirst(h)}

\* The scheduled days of the scenario, Monday to Saturday and Monday to
\* Thursday of the week after, newest first.
ScenarioDates == <<11, 10, 9, 8, 6, 5, 4, 3, 2, 1>>

\* A window of exactly 10 scheduled days with 10 qualifying records in it.
ScenarioTen ==
    [today |-> 1, endDate |-> 11, days |-> {1, 2, 3, 4, 5, 6},
     history |-> [i \in 1 .. 10 |-> [date |-> ScenarioDates[i], amount |-> Cur(20000, 1000)]]]

InitCalc ==
    /\ InitCore
    /\ NoApp
    /\ accountBalance = Whole(0)
    /\ presetPaymentAmount = Whole(150)
    /\ \/ /\ now \in Instants(TodayDays)
          /\ paymentDays \in WeekdaySets
          /\ \E e \in 0 .. MaxDay : deadlineConfig = Some([enabled |-> TRUE, endDate |-> e])
          /\ paymentHistory \in HistorySamples
       \/ /\ now \in Instants({ScenarioTen.today})
          /\ paymentDays = ScenarioTen.days
          /\ deadlineConfig = Some([enabled |-> TRUE, endDate |-> ScenarioTen.endDate])
          /\ paymentHistory = ScenarioTen.history

\* One report: the deadline counters as loadAccountData computes them and
\* the status as the debtStatus memo computes it, at the same clock value.
Evaluate ==
    /\ evaluatedAt = Never
    /\ evaluatedAt' = now
    /\ paymentDaysRemaining' =
           calculatePaymentDaysRemaining(now, deadlineConfig[1].endDate,
                                         paymentDays, paymentHistory)
    /\ totalDaysUntilDeadline' = getDaysUntilDeadline(now, deadlineConfig[1].endDate)
    /\ renderedStatus' = debtStatus(now, paymentDays, paymentHistory)
    /\ UNCHANGED <<now, paymentDays, paymentHistory, deadlineConfig, accountBalance,
                   presetPaymentAmount, renderedFinishDate, appVars>>

NextCalc == Evaluate

SpecCalc == InitCalc /\ [][NextCalc]_vars

----------------------------------------------------------------------------
(* Claims about the deadline counter and the status classifier (SpecCalc). *)

Evaluated == evaluatedAt # Never

TodayDate == FormatDate(evaluatedAt)

EndDate == deadlineConfig[1].endDate

\* the scheduled calendar dates from today through the deadline
ScheduledDates == {d \in TodayDate .. EndDate : d % 7 \in paymentDays}

\* the records of the history dated within [first, last] on a scheduled
\* weekday with an amount >= 0
RecordsWithin(first, last) ==
    {i \in DOMAIN paymentHistory :
        /\ first <= paymentHistory[i].date
        /\ paymentHistory[i].date <= last
        /\ paymentHistory[i].date % 7 \in paymentDays
        /\ paymentHistory[i].amount.num >= 0}

\* C1: calculatePaymentDaysRemaining returns a value >= 0, and exactly 0
\* whenever the deadline's date is earlier than today's, whatever the
\* history holds.
C1_RemainingNonNegative ==
    Evaluated =>
        /\ paymentDaysRemaining >= 0
        /\ (EndDate < TodayDate => paymentDaysRemaining = 0)

\* C1 witness: a passed deadline with a non-empty history, evaluated to 0.
C1_Witness ==
    /\ Evaluated
    /\ EndDate < TodayDate
    /\ \E i \in DOMAIN paymentHistory : paymentHistory[i].amount.num >= 0
    /\ paymentDaysRemaining = 0

\* C2: the total counts every calendar date from today through the
\* deadline, both ends included and at any time of day, whose weekday is
\* scheduled, and the result is max(0, total - satisfied).
C2_CountsScheduledDates ==
    Evaluated =>
        paymentDaysRemaining =
            Max(0, Cardinality(ScheduledDates)
                   - PaidDays(paymentHistory, evaluatedAt, ParseDate(EndDate), paymentDays))

\* C2 witness: later than midnight, a window of exactly 10 scheduled days
\* with exactly 10 qualifying records in it yields 0.
C2_Witness ==
    /\ Evaluated
    /\ evaluatedAt % TicksPerDay # 0
    /\ Cardinality(ScheduledDates) = 10
    /\ Cardinality(RecordsWithin(TodayDate, EndDate)) = 10
    /\ Len(paymentHistory) = 10
    /\ paymentDaysRemaining = 0

\* C3 as claimed: satisfiedDays counts the records dated within
\* [today - 1 day, deadline + 1 day].
C3_Original_WindowWidenedByOneDay ==
    Evaluated =>
        paymentDaysRemaining =
            Max(0, Cardinality(ScheduledDates)
                   - Cardinality(RecordsWithin(TodayDate - 1, EndDate + 1)))

\* C3 as amended: satisfiedDays counts the records dated within
\* [today, deadline], both ends included, on a scheduled weekday and with
\* an amount >= 0; a record dated today - 1 day or deadline + 1 day is not
\* counted.
C3_WindowTodayToDeadline ==
    Evaluated =>
        paymentDaysRemaining =
            Max(0, Cardinality(ScheduledDates)
                   - Cardinality(RecordsWithin(TodayDate, EndDate)))

\* C3 witness: records dated today - 1 day and deadline + 1 day, both on
\* scheduled weekdays with amounts >= 0, leave the count undiminished.
C3_Witness ==
    /\ Evaluated
    /\ RecordsWithin(TodayDate - 1, TodayDate - 1) # {}
    /\ RecordsWithin(EndDate + 1, EndDate + 1) # {}
    /\ Cardinality(ScheduledDates) > 0
    /\ paymentDaysRemaining = Cardinality(ScheduledDates)

\* C6: the verdict is "completed" when today is scheduled and a record
\* dated today has an amount >= 0, "pending" when today is scheduled and
\* there is none, "not a payment day" when today is not scheduled; "up to
\* date" is never produced.
C6_StatusVerdict ==
    Evaluated =>
        /\ renderedStatus =
              IF TodayDate % 7 \in paymentDays
              THEN IF \E i \in DOMAIN paymentHistory :
                         /\ paymentHistory[i].date = TodayDate
                         /\ paymentHistory[i].amount.num >= 0
                   THEN StatusCompleted
                   ELSE StatusPending
              ELSE StatusNotPaymentDay
        /\ renderedStatus # StatusUpToDate

\* C6 witness: a scheduled day whose only record of today is a zero-amount
\* blank payment is reported completed.
C6_Witness ==
    /\ Evaluated
    /\ renderedStatus = StatusCompleted
    /\ \A i \in DOMAIN paymentHistory :
          paymentHistory[i].date = TodayDate => paymentHistory[i].amount.num = 0

\* the records dated d with an amount >= 0
RecordsOn(d) ==
    {i \in DOMAIN paymentHistory :
        paymentHistory[i].date = d /\ paymentHistory[i].amount.num >= 0}

\* the number of such records over the dates of a set
RECURSIVE RecordsOnDates(_)
RecordsOnDates(dates) ==
    IF dates = {} THEN 0
    ELSE LET d == CHOOSE x \in dates : TRUE
         IN  Cardinality(RecordsOn(d)) + RecordsOnDates(dates \ {d})

\* C17: each scheduled date from today through the deadline takes as many
\* off the count as it has records with an amount >= 0, k records on one
\* date k, down to the clamp at 0; the records of all other dates, those on
\* a weekday that is not scheduled among them, take nothing off.
C17_EachRecordCountsSeparately ==
    Evaluated =>
        paymentDaysRemaining =
            Max(0, Cardinality(ScheduledDates) - RecordsOnDates(ScheduledDates))

\* C17 witness: two records on one scheduled date within the window have
\* taken two off a count of at least three.
C17_Witness ==
    /\ Evaluated
    /\ \E d \in ScheduledDates : Cardinality(RecordsOn(d)) = 2
    /\ Cardinality(ScheduledDates) >= 3
    /\ paymentDaysRemaining = Cardinality(ScheduledDates) - 2

----------------------------------------------------------------------------
(* SpecClock: getDaysUntilDeadline evaluated again and again while the     *)
(* clock advances and the deadline stays fixed.                            *)

\* the clock runs to the end of the day after MaxDay
LastInstant == (MaxDay + 2) * TicksPerDay - 1

InitClock ==
    /\ InitCore
    /\ NoApp
    /\ accountBalance = Whole(0)
    /\ presetPaymentAmount = Whole(150)
    /\ now = 0
    /\ paymentDays = {1, 2, 3, 4, 5}
    /\ paymentHistory = <<>>
    /\ \E e \in 0 .. MaxDay : deadlineConfig = Some([enabled |-> TRUE, endDate |-> e])

Tick ==
    /\ now < LastInstant
    /\ now' = now + 1
    /\ UNCHANGED <<paymentDays, paymentHistory, deadlineConfig, paymentDaysRemaining,
                   totalDaysUntilDeadline, accountBalance, presetPaymentAmount,
                   renderedStatus, renderedFinishDate, evaluatedAt, appVars>>

GetDays ==
    /\ evaluatedAt # now
    /\ evaluatedAt' = now
    /\ totalDaysUntilDeadline' = getDaysUntilDeadline(now, deadlineConfig[1].endDate)
    /\ UNCHANGED <<now, paymentDays, paymentHistory, deadlineConfig, paymentDaysRemaining,
                   accountBalance, presetPaymentAmount, renderedStatus,
                   renderedFinishDate, appVars>>

NextClock == Tick \/ GetDays

SpecClock == InitClock /\ [][NextClock]_vars

\* C4 as claimed: getDaysUntilDeadline returns the deadline's date minus
\* today's date, whatever the time of day, clamped to 0.
C4_Original_CalendarDayDifference ==
    Evaluated => totalDaysUntilDeadline = Max(0, EndDate - TodayDate)

\* C5: with the deadline fixed, an evaluation at a later clock value never
\* returns more than the one before it, and every evaluation on a day after
\* the deadline returns 0.
C5_DaysUntilDeadlineNonIncreasing ==
    [][Evaluated' =>
          /\ (Evaluated => totalDaysUntilDeadline' <= totalDaysUntilDeadline)
          /\ (FormatDate(evaluatedAt') > EndDate => totalDaysUntilDeadline' = 0)]_vars

\* C5 witness: an evaluation on a day after the deadline, after the clock
\* has passed at least one day, returned 0.
C5_Witness ==
    /\ Evaluated
    /\ TodayDate > EndDate
    /\ TodayDate >= 1
    /\ totalDaysUntilDeadline = 0

----------------------------------------------------------------------------
(* SpecFinish: the finish-date projector applied to inputs drawn from      *)
(* bounded sets, around the end of September.                              *)

MaxBalanceSteps == 8

BalanceSamples ==
    {milliunitsToCurrency(k * 5000) : k \in 0 .. MaxBalanceSteps}
    \cup {milliunitsToCurrency(m) : m \in {0 - 10000, 1, 19999, 20001, 300000, 310000}}

PresetSamples ==
    {Whole(0 - 20), Whole(0), Whole(10), Whole(20), Whole(25), Whole(150), Cur(25, 2)}

FinishDays == {EndDateTaxi - 1, EndDateTaxi, EndDateTaxi + 1}

InitFinish ==
    /\ InitCore
    /\ NoApp
    /\ now \in Instants(FinishDays)
    /\ paymentDays \in WeekdaySets
    /\ paymentHistory = <<>>
    /\ deadlineConfig = Null
    /\ accountBalance \in BalanceSamples
    /\ presetPaymentAmount \in PresetSamples

RenderFinishDate ==
    /\ evaluatedAt = Never
    /\ evaluatedAt' = now
    /\ renderedFinishDate' = estimatedFinishDate(now, accountBalance, presetPaymentAmount)
    /\ UNCHANGED <<now, paymentDays, paymentHistory, deadlineConfig, paymentDaysRemaining,
                   totalDaysUntilDeadline, accountBalance, presetPaymentAmount,
                   renderedStatus, appVars>>

NextFinish == RenderFinishDate

SpecFinish == InitFinish /\ [][NextFinish]_vars

\* n payments cover the balance
Covers(n) ==
    n * presetPaymentAmount.num * accountBalance.den
        >= accountBalance.num * presetPaymentAmount.den

\* C8: for a balance > 0 and a payment > 0 the projected date is today plus
\* 15 days for each of the ceil(balance / payment) payments left, whatever
\* the scheduled weekdays; 300.00 at 20.00 gives 15 payments, 225 days.
C8_FinishDateProjection ==
    (Evaluated /\ accountBalance.num > 0 /\ presetPaymentAmount.num > 0) =>
        /\ \E n \in 1 .. accountBalance.num :
              /\ Covers(n)
              /\ ~Covers(n - 1)
              /\ renderedFinishDate = DateLabel(TodayDate + 15 * n)
        /\ (CurEq(accountBalance, Whole(300)) /\ CurEq(presetPaymentAmount, Whole(20))
              => renderedFinishDate = DateLabel(TodayDate + 225))

\* C8 witness: 300.00 at 20.00 on the last day of September.
C8_Witness ==
    /\ Evaluated
    /\ TodayDate = EndDateTaxi
    /\ CurEq(accountBalance, Whole(300))
    /\ CurEq(presetPaymentAmount, Whole(20))
    /\ renderedFinishDate = DateLabel(TodayDate + 225)

\* C9: a payment amount <= 0 yields "N/A" for every balance, never a date.
C9_NotApplicable ==
    (Evaluated /\ presetPaymentAmount.num <= 0) => renderedFinishDate = NotApplicable

\* C9 witness: a payment amount of zero with a positive balance.
C9_Witness ==
    /\ Evaluated
    /\ presetPaymentAmount.num = 0
    /\ accountBalance.num > 0
    /\ renderedFinishDate = NotApplicable

----------------------------------------------------------------------------
(* Spec: the page.  It is opened late on the day of the taxi account's     *)
(* deadline, with one of a few ledgers behind it.                          *)

DefaultAccountKey == "taxi-soluto"

\* searchParams.get('account') || 'taxi-soluto': the parameter is Null when
\* the URL has none
ResolveAccountKey(param) ==
    IF param = Null \/ param[1] = "" THEN DefaultAccountKey ELSE param[1]

\* the URLs the page is opened with: no parameter, an empty one, each
\* configured key, and the key the README gives as its example
AccountParams ==
    {Null} \cup {Some(k) : k \in DOMAIN ACCOUNT_CONFIG \cup {"", "personal-loan"}}

AccountKeys == {ResolveAccountKey(param) : param \in AccountParams}

\* the debt account's balance: more than one payment, and less than one
LedgerBalanceSamples == {0 - 30000, 10000}

ExtraTx == 1

\* the i-th transaction of a sample ledger: dates in no order, amounts of
\* both signs and zero, each of its own magnitude
TxSample(i) ==
    [date |-> (i * 5) % (MaxDay + 1),
     amount |-> IF i % 4 = 0 THEN 0
                ELSE IF i % 2 = 0 THEN i * 1000 ELSE 0 - i * 1000]

LedgerSizes == {0, HistoryLimit - 1, HistoryLimit + ExtraTx}

LedgerSamples == {[i \in 1 .. n |-> TxSample(i)] : n \in LedgerSizes}

\* the ledgers behind the page: one without a budget, one owing less than
\* a payment, and one for each sample of transactions
Ledgers ==
    {[budgets |-> <<>>, balance |-> 0 - 30000, transactions |-> <<>>],
     [budgets |-> <<"budget-1">>, balance |-> 10000, transactions |-> <<>>]}
    \cup {[budgets |-> <<"budget-1">>, balance |-> b, transactions |-> l] :
              b \in LedgerBalanceSamples \ {10000}, l \in LedgerSamples \ {<<>>}}

\* the longest sample of transactions
FullLedger == [i \in 1 .. HistoryLimit + ExtraTx |-> TxSample(i)]

\* the page's clock runs into the day after the taxi account's deadline
SessionEnd == ParseDate(EndDateTaxi + 1)

ClockAdvances == now < SessionEnd /\ Tick

Init ==
    /\ InitCore
    /\ InitApp
    /\ statusStale = TRUE
    /\ now = ParseDate(EndDateTaxi) + TicksPerDay - 1
    /\ accountKey \in AccountKeys
    /\ \E l \in Ledgers :
          /\ accountKey # "taxi" => l.transactions = FullLedger
          /\ budgets = l.budgets
          /\ ledgerBalance = l.balance
          /\ ledger = l.transactions
    /\ accountBalance = Whole(0)
    /\ presetPaymentAmount = Whole(150)
    /\ paymentDays = {1, 2, 3, 4, 5}
    /\ paymentHistory = <<>>
    /\ deadlineConfig = Null

Next ==
    \/ LoadStart
    \/ LoadBudgets
    \/ LoadAccount
    \/ LoadTransactions
    \/ OpenPaymentModal
    \/ ClosePaymentModal
    \/ OpenBlankPaymentModal
    \/ CloseBlankPaymentModal
    \/ SetBlankPaymentReason
    \/ RegisterPaymentStart
    \/ RegisterBlankPaymentStart
    \/ RegisterPaymentWritten
    \/ RegisterBlankPaymentWritten
    \/ RegisterPaymentRefreshed
    \/ RenderStatus
    \/ ClockAdvances

Spec == Init /\ [][Next]_vars

\* C7 as claimed: the outstanding balance held by the page is >= 0 in every
\* reachable state.
C7_Original_BalanceNonNegative == accountBalance.num >= 0

\* how often record r occurs in a list of records
Occurrences(list, r) == Cardinality({i \in DOMAIN list : list[i] = r})

\* a fetched transaction as a payment record: the absolute value of the
\* signed milliunits, divided by 1000
AsRecord(t) == [date |-> t.date, amount |-> [num |-> Abs(t.amount), den |-> 1000]]

FetchedRecords == [i \in DOMAIN lastFetched[1] |-> AsRecord(lastFetched[1][i])]

\* C10: after every successful load or refresh paymentHistory holds at most
\* 20 records, newest first; they are records of the fetched list, all of
\* them when it has no more than 20, and otherwise none that was left out
\* is newer than one that was kept; each amount is the absolute value of
\* the ledger's milliunits divided by 1000, so >= 0.
C10_HistoryIsTwentyMostRecent ==
    lastFetched # Null =>
        /\ Len(paymentHistory) = Min(20, Len(lastFetched[1]))
        /\ \A i \in DOMAIN paymentHistory : \A j \in DOMAIN paymentHistory :
              i < j => paymentHistory[i].date >= paymentHistory[j].date
        /\ \A i \in DOMAIN paymentHistory :
              /\ paymentHistory[i].amount.num >= 0
              /\ Occurrences(paymentHistory, paymentHistory[i])
                    <= Occurrences(FetchedRecords, paymentHistory[i])
        /\ \A k \in DOMAIN FetchedRecords :
              (\E i \in DOMAIN paymentHistory :
                    paymentHistory[i].date < FetchedRecords[k].date)
                 => Occurrences(paymentHistory, FetchedRecords[k])
                       = Occurrences(FetchedRecords, FetchedRecords[k])

\* C10 witness: a refresh after a registered payment fetched more than 20
\* transactions, of which 20 were kept, the payment just written among them.
C10_Witness ==
    /\ lastFetched # Null
    /\ clicks > 0
    /\ Len(ledger) > HistoryLimit
    /\ lastFetched[1] = ledger
    /\ Len(paymentHistory) = 20
    /\ ledger[Len(ledger)].date = FormatDate(now)
    /\ \E i \in DOMAIN paymentHistory : paymentHistory[i] = AsRecord(ledger[Len(ledger)])

----------------------------------------------------------------------------
(* SpecLoad: the effect of App on its own.  It runs when the page is       *)
(* mounted and again whenever the 'account' parameter changes while the    *)
(* page stays mounted; the state of App is kept across the change.  Each   *)
(* call of the ledger returns or fails in the end.                         *)

MaxNavigations == 1

\* the URL changes to another account key: the effect's dependency
\* [accountKey] changes and loadAccountData starts anew
Navigate ==
    /\ loadPc \in {"done", "failed"}
    /\ ~statusStale
    /\ calls = <<>>
    /\ navigations < MaxNavigations
    /\ navigations' = navigations + 1
    /\ \E param \in AccountParams :
          /\ ResolveAccountKey(param) # accountKey
          /\ accountKey' = ResolveAccountKey(param)
    /\ loadPc' = "mount"
    /\ UNCHANGED <<now, paymentDays, paymentHistory, deadlineConfig,
                   paymentDaysRemaining, totalDaysUntilDeadline, accountBalance,
                   presetPaymentAmount, renderedStatus, renderedFinishDate,
                   evaluatedAt, loading, error, budgetId, accountId, paymentAccounts,
                   isPaymentModalOpen, lastToast, budgets, ledgerBalance, ledger,
                   calls, clicks, lastFetched, fetches, blankVars, statusAt,
                   statusStale, paid>>

NextLoad ==
    \/ LoadStart
    \/ LoadBudgets
    \/ LoadAccount
    \/ LoadTransactions
    \/ RenderStatus
    \/ Navigate
    \/ ClockAdvances

SpecLoad ==
    /\ Init
    /\ [][NextLoad]_vars
    /\ WF_vars(LoadStart)
    /\ WF_vars(LoadBudgets)
    /\ WF_vars(LoadAccount)
    /\ WF_vars(LoadTransactions)

LoadEnded == loadPc \in {"done", "failed"}

\* C19 as claimed: after a successful load for an account key the deadline
\* configuration and the payment-method accounts in the state are those
\* the key's configuration defines, none where it defines none, and the
\* deadline counters are those of the key's deadline.
C19_Original_StateIsOfLoadedAccount ==
    loadPc = "done" =>
        LET config == ACCOUNT_CONFIG[accountKey]
        IN  /\ deadlineConfig = config.deadlineConfig
            /\ paymentAccounts = IF config.paymentAccounts = Null
                                 THEN NoPaymentAccounts
                                 ELSE config.paymentAccounts[1]
            /\ config.deadlineConfig # Null =>
                  /\ paymentDaysRemaining =
                        calculatePaymentDaysRemaining(
                            evaluatedAt, config.deadlineConfig[1].endDate,
                            config.paymentDays, paymentHistory)
                  /\ totalDaysUntilDeadline =
                        getDaysUntilDeadline(evaluatedAt,
                                             config.deadlineConfig[1].endDate)

----------------------------------------------------------------------------
(* Claims about the configuration lookup of loadAccountData (Spec).        *)

LoadStarted == loadPc # "mount"

C12_Original_DefaultKeyIsConfigured ==
    (accountKey = ResolveAccountKey(Null) /\ LoadStarted)
        => /\ fetches >= 1
           /\ error # ConfigNotFound

----------------------------------------------------------------------------
(* Claims about the handlers (Spec).                                       *)

\* a text that is empty or holds nothing but spaces
IsBlank(text) == \A i \in DOMAIN text : text[i] = " "

\* the invocations that await their ledger write, and those that await the
\* fetch of refreshTransactions
WritesPending(c) == Cardinality({i \in DOMAIN c : c[i].pc = "write"})

RefreshesPending(c) == Cardinality({i \in DOMAIN c : c[i].pc = "refresh"})

ErrorToasts ==
    {"Failed to load account data", "Error al registrar el pago",
     "Error al registrar el pago en blanco", "Debes proporcionar una razon"}

\* C13: handleRegisterBlankPayment called with an empty or whitespace-only
\* reason starts no ledger write and no refresh and leaves the modals, the
\* reason text, the history, the balance and paymentDaysRemaining as they
\* were.
C13_BlankReasonRejected ==
    [][(blanks' = blanks + 1 /\ IsBlank(blankPaymentReason))
          => UNCHANGED <<calls, ledger, ledgerBalance, lastFetched,
                         isBlankPaymentModalOpen, isPaymentModalOpen,
                         blankPaymentReason, paymentHistory, paymentDaysRemaining,
                         accountBalance>>]_vars

\* C13 witness: the handler was called with a reason of two spaces; the
\* modal is still open with that text, nothing awaits the ledger and the
\* ledger is the one the history was fetched from.
C13_Witness ==
    /\ blanks = 1
    /\ blankPaymentReason = <<" ", " ">>
    /\ isBlankPaymentModalOpen
    /\ lastToast = "Debes proporcionar una razon"
    /\ calls = <<>>
    /\ lastFetched = Some(ledger)

\* C14 as claimed: when the fetch of refreshTransactions fails (the call
\* ends and the history stays behind the ledger), the page is left with an
\* error state or an error notification.
C14_Original_RefreshFailurePropagates ==
    [][(/\ RefreshesPending(calls') < RefreshesPending(calls)
        /\ lastFetched # Some(ledger)
        /\ lastFetched' = lastFetched)
          => (error' # ErrorNull \/ lastToast' \in ErrorToasts)]_vars

\* C16: when the ledger write of handleRegisterPayment or of
\* handleRegisterBlankPayment fails, the page stays shown, an error
\* notification is raised, the invocation ends without another write and
\* without a refresh, and accountBalance, paymentHistory and
\* paymentDaysRemaining stay as they were.
C16_WriteFailureLeavesState ==
    [][(WritesPending(calls') < WritesPending(calls) /\ ledger' = ledger)
          => /\ lastToast' \in {"Error al registrar el pago",
                                "Error al registrar el pago en blanco"}
             /\ Len(calls') = Len(calls) - 1
             /\ RefreshesPending(calls') = RefreshesPending(calls)
             /\ UNCHANGED <<accountBalance, paymentHistory, paymentDaysRemaining,
                            lastFetched, loading, error, ledgerBalance>>]_vars

\* C16 witness: the only invocation, a payment, has ended with the error
\* notification; the balance is the loaded one and the history that of the
\* unchanged ledger.
C16_Witness ==
    /\ clicks = 1
    /\ blanks = 0
    /\ calls = <<>>
    /\ lastToast = "Error al registrar el pago"
    /\ PageShown
    /\ accountBalance = milliunitsToCurrency(Abs(ledgerBalance))
    /\ lastFetched = Some(ledger)

\* C15 as claimed: once a load with a deadline has ended and its status is
\* rendered, the deadline counters and the status were computed from one
\* and the same date.
C15_Original_SingleToday ==
    (loadPc = "done" /\ clicks = 0 /\ blanks = 0 /\ ~statusStale
        /\ evaluatedAt # Never /\ statusAt # Never)
        => FormatDate(evaluatedAt) = FormatDate(statusAt)

\* n times the amount a
CurTimes(n, a) == [num |-> n * a.num, den |-> a.den]

\* C18 as claimed: once every handleRegisterPayment call has finished and
\* the writes of all k of them have succeeded, the balance shown is the
\* balance shown before the first call minus k times the payment amount.
C18_Original_EveryPaymentDeducted ==
    (clicks > 0 /\ paid.written = clicks /\ calls = <<>>)
        => CurEq(accountBalance,
                 CurSub(paid.before[1], CurTimes(clicks, presetPaymentAmount)))

=============================================================================
